---- MODULE Spec2Model ----
(***************************************************************************)
(* Model of the hemis ESP32 telemetry agent (src/esp32.cpp): the loop()    *)
(* scheduler, the readSensors() acquisition cycle, the sendDataToBackend() *)
(* transmission cycle with its retry loop, and connectWiFi().              *)
(*                                                                         *)
(* Time is explicit.  `now` is the real time in milliseconds since the     *)
(* start of the behaviour; the value millis() returns is (epoch + now)     *)
(* modulo 2^ClockBits.  Every delay() of the source advances `now` by its  *)
(* argument, and http.POST advances it by a latency drawn from a set.      *)
(*                                                                         *)
(* Variables after the "history" comment never influence a guard or a      *)
(* program variable: they record what a pass did so that properties can    *)
(* refer to it.                                                            *)
(***************************************************************************)
EXTENDS Integers, Sequences, FiniteSets

\* ---------------------------------------------------------------- constants
\* Program constants, with the values of the source.
SENSOR_READ_INTERVAL == 2000
DATA_SEND_INTERVAL == 1000
DEVICE_ID == 1
wifiCount == 3
maxRetries == 3
WIFI_POLL_DELAY == 500
POLL_DELAY == 10
SAMPLE_DELAY == 5
RETRY_DELAY == 2000
LOOP_DELAY == 100

\* Program constants scaled down to keep the state space finite and small.
\* Source values: BUFFER_SIZE 100 (line 32), POLL_BUDGET 100 (line 103),
\* WIFI_ATTEMPT_TIMEOUT 10000 (line 55), ClockBits 32 (unsigned long).
\* SENSOR_STORAGE is the number of samples the sensor driver can hold between
\* check() and nextSample().
BUFFER_SIZE == 2
POLL_BUDGET == 2
WIFI_ATTEMPT_TIMEOUT == 1000
SENSOR_STORAGE == 1
ClockBits == 16

\* The horizon: no scheduler pass starts at or after this real time.
MaxTime == 4100

ClockMod == 2 ^ ClockBits

\* The two values of WiFi.status() the program distinguishes.
WL_CONNECTED == "WL_CONNECTED"
WL_DISCONNECTED == "WL_DISCONNECTED"

\* ------------------------------------------------------------------- inputs
\* Where a behaviour starts, as <<epoch, now>>: millis() is epoch at real time
\* 0, both gates were last stamped at real time 0 and the first pass of loop()
\* starts at real time now.
\*  - after a reset: setup() zeroes both stamps (lines 247-248) and returns
\*    after delay(1000) + delay(100), at 1100 ms;
\*  - on a device that has been up for almost a whole clock period: the
\*    previous pass found both gates open 2500 ms before the clock wraps, its
\*    fill timed out at slot 0 after POLL_BUDGET polls, its record was delivered
\*    by the first POST, and its delay(100) has just ended.
Starts ==
  { <<0, 1100>>,
    <<ClockMod - 2500, POLL_BUDGET * POLL_DELAY + 90 + LOOP_DELAY>> }
\* What the estimator may leave in (heartRate, validHeartRate, spo2, validSPO2).
Estimates ==
  { [heartRate |-> 72, validHeartRate |-> 1, spo2 |-> -999, validSPO2 |-> 0],
    [heartRate |-> 55, validHeartRate |-> 0, spo2 |-> 98, validSPO2 |-> 1] }
\* (red, ir) pairs the sensor may deliver.  The readings are opaque to the
\* program (only the estimator looks at them, and its result is unconstrained),
\* so one nonzero pair stands for all of them.
Samples == { <<10, 20>> }
\* mlx.readObjectTempC(), in whole degrees.
Temperatures == {36, 37}
\* Values http.POST may return: HTTP statuses and transport error codes.
HttpCodes == {200, 201, 301, 302, 500, -1, 0}
\* Time one http.POST takes.
PostLatency == {90}

Slots == 0 .. (BUFFER_SIZE - 1)

VARIABLES
  pc,                \* control position
  now,               \* real time, ms
  epoch,             \* millis() at real time 0
  lastSensorRead, lastDataSend, currentTime,
  bufferLength, redBuffer, irBuffer,
  spo2, validSPO2, heartRate, validHeartRate,
  i, attempts,       \* readSensors locals
  avail,             \* samples held by the sensor driver (particleSensor.available())
  wifiStatus,        \* what WiFi.status() last returned
  wifiIdx, startAttempt,                  \* connectWiFi locals
  jsonPayload, retryCount, httpResponseCode, \* sendDataToBackend locals
  \* history
  acqOutcome,        \* "none" | "gated" | "running" | "timeout" | "complete"
  txOutcome,         \* "none" | "gated" | "linkdown" | "sending" | "delivered" | "rejected" | "dropped"
  estBefore,         \* the estimate when the acquisition cycle of this pass started
  estimatorCalls,    \* estimator invocations in this pass
  fresh,             \* slots written by the acquisition cycle of this pass
  trace,             \* POSTs and backoff delays of the delivery of this pass
  connectCalls,      \* connectWiFi invocations in this pass
  acqStartedAt, acqGap, \* real time of the last cycle start; gap to the one before
  txEnteredAt, txGap,   \* same for entries into sendDataToBackend
  pollCount,         \* particleSensor.check() calls of the cycle of this pass
  samplesRead,       \* particleSensor.nextSample() calls of the cycle of this pass
  slotOrd,           \* per slot: which sample of this cycle it holds (0: none)
  recordBuilds,      \* payloads built in this pass
  linkChecks,        \* evaluations of the test of line 132 in this pass
  lastComplete,      \* what the estimator returned in the last complete cycle
  passStartedAt,     \* real time at which currentTime was read
  txStampedAt        \* real time lastDataSend stands for

prog == <<pc, now, epoch, lastSensorRead, lastDataSend, currentTime, bufferLength,
          redBuffer, irBuffer, spo2, validSPO2, heartRate, validHeartRate, i,
          attempts, avail, wifiStatus, wifiIdx, startAttempt, jsonPayload,
          retryCount, httpResponseCode>>
hist == <<acqOutcome, txOutcome, estBefore, estimatorCalls, fresh, trace,
          connectCalls, acqStartedAt, acqGap, txEnteredAt, txGap, pollCount,
          samplesRead, slotOrd, recordBuilds, linkChecks, lastComplete,
          passStartedAt, txStampedAt>>
vars == <<prog, hist>>

timers == <<lastSensorRead, lastDataSend, currentTime>>
buffers == <<bufferLength, redBuffer, irBuffer>>
estimate == <<spo2, validSPO2, heartRate, validHeartRate>>
fillLocals == <<i, attempts>>
wifiLocals == <<wifiIdx, startAttempt>>
sendLocals == <<jsonPayload, retryCount, httpResponseCode>>
fillHist == <<pollCount, samplesRead, slotOrd>>
sendHist == <<recordBuilds, linkChecks>>
acqHist == <<acqOutcome, estBefore, estimatorCalls, fresh, acqStartedAt, acqGap,
             fillHist, lastComplete>>
txHist == <<txOutcome, trace, connectCalls, txEnteredAt, txGap, sendHist,
            txStampedAt>>

\* ------------------------------------------------------------------ helpers
\* millis(): the 32-bit millisecond clock, here ClockBits wide.
millis == (epoch + now) % ClockMod

\* A signed difference, taken without the wrap of unsigned arithmetic.
USub_Signed(a, b) == a - b

\* a - b in unsigned arithmetic of the clock's width.
USub(a, b) == (a - b + ClockMod) % ClockMod

\* The current VitalEstimate as one record.
Estimate ==
  [heartRate |-> heartRate, validHeartRate |-> validHeartRate,
   spo2 |-> spo2, validSPO2 |-> validSPO2]

NoPayload == [device_id |-> 0, heart_rate |-> 0, spo2 |-> 0, temp_skin |-> 0,
              timestamp |-> <<"none", 0>>]

\* getCurrentTimestamp(): the wall clock to the second when it is set, else
\* the millis() fallback.
getCurrentTimestamp(timeSet) ==
  IF timeSet THEN <<"iso", now \div 1000>> ELSE <<"millis", millis>>

\* The classification of one http.POST result by the retry loop.
Classify(code) ==
  IF code > 0
    THEN IF code = 200 \/ code = 201 THEN "Delivered"
         ELSE IF code = 301 \/ code = 302 THEN "Rejected"
         ELSE "TransientFailure"
    ELSE "TransientFailure"

\* ---------------------------------------------------------------------- Init
Init ==
  /\ pc = "loop"
  /\ \E st \in Starts : epoch = st[1] /\ now = st[2]
  /\ lastSensorRead = epoch
  /\ lastDataSend = epoch
  /\ currentTime = epoch
  /\ bufferLength = IF epoch = 0 THEN 0 ELSE BUFFER_SIZE
  /\ redBuffer = [k \in Slots |-> 0]
  /\ irBuffer = [k \in Slots |-> 0]
  /\ spo2 = 0 /\ validSPO2 = 0 /\ heartRate = 0 /\ validHeartRate = 0
  /\ i = 0 /\ attempts = 0
  /\ avail = 0
  /\ wifiStatus \in {WL_CONNECTED, WL_DISCONNECTED}
  /\ wifiIdx = 0 /\ startAttempt = 0
  /\ jsonPayload = NoPayload /\ retryCount = 0 /\ httpResponseCode = -1
  /\ acqOutcome = "none" /\ txOutcome = "none"
  /\ estBefore = [heartRate |-> 0, validHeartRate |-> 0, spo2 |-> 0, validSPO2 |-> 0]
  /\ estimatorCalls = 0
  /\ fresh = [k \in Slots |-> FALSE]
  /\ trace = <<>>
  /\ connectCalls = 0
  /\ acqStartedAt = -1 /\ acqGap = -1
  /\ txEnteredAt = -1 /\ txGap = -1
  /\ pollCount = 0 /\ samplesRead = 0
  /\ slotOrd = [k \in Slots |-> 0]
  /\ recordBuilds = 0 /\ linkChecks = 0
  /\ lastComplete = [has |-> FALSE, heartRate |-> 0, validHeartRate |-> 0,
                     spo2 |-> 0, validSPO2 |-> 0]
  /\ passStartedAt = 0
  /\ txStampedAt = 0

\* A scheduler whose pass evaluates the transmission tick first and never
\* calls readSensors().
LoopBegin_TransmitsFirst ==
  /\ pc = "loop"
  /\ now < MaxTime
  /\ currentTime' = millis
  /\ pc' = "txgate"
  /\ passStartedAt' = now
  /\ UNCHANGED <<now, epoch, lastSensorRead, lastDataSend, buffers, estimate,
                 fillLocals, avail, wifiStatus, wifiLocals, sendLocals, acqHist, txHist>>

\* ---------------------------------------------------------------- scheduler
\* loop(), line 252: currentTime = millis(); then readSensors() is called.
LoopBegin ==
  /\ pc = "loop"
  /\ now < MaxTime
  /\ currentTime' = millis
  /\ pc' = "readSensors"
  /\ passStartedAt' = now
  /\ UNCHANGED <<now, epoch, lastSensorRead, lastDataSend, buffers, estimate,
                 fillLocals, avail, wifiStatus, wifiLocals, sendLocals, acqHist, txHist>>

\* ------------------------------------------------------------- readSensors
\* Lines 92-94: the gate is closed, readSensors returns false.
ReadSensorsGated ==
  /\ pc = "readSensors"
  /\ USub(millis, lastSensorRead) < SENSOR_READ_INTERVAL
  /\ pc' = "txgate"
  /\ acqOutcome' = "gated"
  /\ UNCHANGED <<fillHist, lastComplete, passStartedAt,
                 now, epoch, timers, buffers, estimate, fillLocals, avail,
                 wifiStatus, wifiLocals, sendLocals, txHist, estBefore,
                 estimatorCalls, fresh, acqStartedAt, acqGap>>

\* A gate that is open but does not stamp lastSensorRead before the fill.
ReadSensorsStart_NoStamp ==
  /\ pc = "readSensors"
  /\ ~(USub(millis, lastSensorRead) < SENSOR_READ_INTERVAL)
  /\ bufferLength' = BUFFER_SIZE
  /\ i' = 0
  /\ attempts' = 0
  /\ pc' = "fill"
  /\ acqOutcome' = "running"
  /\ estBefore' = Estimate
  /\ estimatorCalls' = 0
  /\ fresh' = [k \in Slots |-> FALSE]
  /\ acqGap' = IF acqStartedAt < 0 THEN -1 ELSE now - acqStartedAt
  /\ acqStartedAt' = now
  /\ pollCount' = 0
  /\ samplesRead' = 0
  /\ slotOrd' = [k \in Slots |-> 0]
  /\ UNCHANGED <<lastComplete, passStartedAt,
                 now, epoch, timers, redBuffer, irBuffer, estimate, avail,
                 wifiStatus, wifiLocals, sendLocals, txHist>>

\* Lines 92-102: the gate is open; stamp lastSensorRead, enter the fill loop.
ReadSensorsStart ==
  /\ pc = "readSensors"
  /\ ~(USub(millis, lastSensorRead) < SENSOR_READ_INTERVAL)
  /\ lastSensorRead' = millis
  /\ bufferLength' = BUFFER_SIZE
  /\ i' = 0
  /\ attempts' = 0
  /\ pc' = "fill"
  /\ acqOutcome' = "running"
  /\ estBefore' = Estimate
  /\ estimatorCalls' = 0
  /\ fresh' = [k \in Slots |-> FALSE]
  /\ acqGap' = IF acqStartedAt < 0 THEN -1 ELSE now - acqStartedAt
  /\ acqStartedAt' = now
  /\ pollCount' = 0
  /\ samplesRead' = 0
  /\ slotOrd' = [k \in Slots |-> 0]
  /\ UNCHANGED <<lastComplete, passStartedAt,
                 now, epoch, lastDataSend, currentTime, redBuffer, irBuffer,
                 estimate, avail, wifiStatus, wifiLocals, sendLocals, txHist>>

\* Lines 103-107: one iteration of the polling loop: check(), delay(10), attempts++.
\* check() moves what the sensor has produced into the driver's storage.
PollSensor ==
  /\ pc = "fill"
  /\ avail = 0 /\ attempts < POLL_BUDGET
  /\ \E n \in 0 .. SENSOR_STORAGE : avail' = n
  /\ now' = now + POLL_DELAY
  /\ attempts' = attempts + 1
  /\ pollCount' = pollCount + 1
  /\ UNCHANGED <<pc, epoch, timers, buffers, estimate, i, wifiStatus, wifiLocals,
                 sendLocals, txHist, acqOutcome, estBefore, estimatorCalls, fresh,
                 acqStartedAt, acqGap, samplesRead, slotOrd, lastComplete,
                 passStartedAt>>

\* A timeout that leaves the fill loop with break instead of return false, so
\* that the estimator runs on what was collected.
FillTimeout_Break ==
  /\ pc = "fill"
  /\ avail = 0 /\ ~(attempts < POLL_BUDGET)
  /\ pc' = "estimate"
  /\ UNCHANGED <<passStartedAt,
                 now, epoch, timers, buffers, estimate, fillLocals, avail,
                 wifiStatus, wifiLocals, sendLocals, txHist, acqHist>>

\* A polling loop without its attempt bound: with nothing available after the
\* budget it keeps waiting at the same slot.
FillTimeout_Spins ==
  /\ pc = "fill"
  /\ avail = 0 /\ ~(attempts < POLL_BUDGET)
  /\ UNCHANGED vars

\* A timeout that gives the interval back: it moves lastSensorRead one
\* interval into the past, so that the next pass starts a new fill.
FillTimeout_Unstamps ==
  /\ pc = "fill"
  /\ avail = 0 /\ ~(attempts < POLL_BUDGET)
  /\ pc' = "txgate"
  /\ i' = 0
  /\ attempts' = 0
  /\ acqOutcome' = "timeout"
  /\ lastSensorRead' = USub(lastSensorRead, SENSOR_READ_INTERVAL)
  /\ UNCHANGED <<fillHist, lastComplete, passStartedAt,
                 now, epoch, lastDataSend, currentTime, buffers, estimate, avail,
                 wifiStatus, wifiLocals, sendLocals, txHist, estBefore,
                 estimatorCalls, fresh, acqStartedAt, acqGap>>

\* A timeout that gives up on the slot only (continue instead of return
\* false): the fill goes on with the next slot and the slot keeps what an
\* earlier cycle left in it.
FillTimeout_SkipsSlot ==
  /\ pc = "fill"
  /\ avail = 0 /\ ~(attempts < POLL_BUDGET)
  /\ i' = i + 1
  /\ attempts' = 0
  /\ pc' = IF i + 1 < bufferLength THEN "fill" ELSE "estimate"
  /\ UNCHANGED <<passStartedAt,
                 now, epoch, timers, buffers, estimate, avail,
                 wifiStatus, wifiLocals, sendLocals, txHist, acqHist>>

\* A timeout that declares the estimate invalid.
FillTimeout_ClearsEstimate ==
  /\ pc = "fill"
  /\ avail = 0 /\ ~(attempts < POLL_BUDGET)
  /\ pc' = "txgate"
  /\ i' = 0
  /\ attempts' = 0
  /\ acqOutcome' = "timeout"
  /\ validHeartRate' = 0
  /\ validSPO2' = 0
  /\ UNCHANGED <<fillHist, lastComplete, passStartedAt,
                 now, epoch, timers, buffers, spo2, heartRate, avail,
                 wifiStatus, wifiLocals, sendLocals, txHist, estBefore,
                 estimatorCalls, fresh, acqStartedAt, acqGap>>

\* A timeout decided by the attempt count alone, without the second
\* available() test of line 109.
FillTimeout_ByCount ==
  /\ pc = "fill"
  /\ ~(attempts < POLL_BUDGET)
  /\ pc' = "txgate"
  /\ i' = 0
  /\ attempts' = 0
  /\ acqOutcome' = "timeout"
  /\ UNCHANGED <<fillHist, lastComplete, passStartedAt,
                 now, epoch, timers, buffers, estimate, avail,
                 wifiStatus, wifiLocals, sendLocals, txHist, estBefore,
                 estimatorCalls, fresh, acqStartedAt, acqGap>>

\* A timeout that ends the whole pass (return from loop()) instead of only
\* readSensors().
FillTimeout_EndsPass ==
  /\ pc = "fill"
  /\ avail = 0 /\ ~(attempts < POLL_BUDGET)
  /\ pc' = "yield"
  /\ i' = 0
  /\ attempts' = 0
  /\ acqOutcome' = "timeout"
  /\ UNCHANGED <<fillHist, lastComplete, passStartedAt,
                 now, epoch, timers, buffers, estimate, avail,
                 wifiStatus, wifiLocals, sendLocals, txHist, estBefore,
                 estimatorCalls, fresh, acqStartedAt, acqGap>>

\* Lines 109-112: still nothing available after the polling loop: return false
\* (the locals go out of scope).
FillTimeout ==
  /\ pc = "fill"
  /\ avail = 0 /\ ~(attempts < POLL_BUDGET)
  /\ pc' = "txgate"
  /\ i' = 0
  /\ attempts' = 0
  /\ acqOutcome' = "timeout"
  /\ UNCHANGED <<fillHist, lastComplete, passStartedAt,
                 now, epoch, timers, buffers, estimate, avail,
                 wifiStatus, wifiLocals, sendLocals, txHist, estBefore,
                 estimatorCalls, fresh, acqStartedAt, acqGap>>

\* Lines 114-117, then i++ and the loop test of line 101 (attempts = 0 at 102).
ReadSample ==
  /\ pc = "fill"
  /\ avail > 0
  /\ \E s \in Samples :
       /\ redBuffer' = [redBuffer EXCEPT ![i] = s[1]]
       /\ irBuffer' = [irBuffer EXCEPT ![i] = s[2]]
  /\ avail' = avail - 1
  /\ now' = now + SAMPLE_DELAY
  /\ i' = i + 1
  /\ attempts' = 0
  /\ fresh' = [fresh EXCEPT ![i] = TRUE]
  /\ pc' = IF i + 1 < bufferLength THEN "fill" ELSE "estimate"
  /\ samplesRead' = samplesRead + 1
  /\ slotOrd' = [slotOrd EXCEPT ![i] = samplesRead + 1]
  /\ UNCHANGED <<pollCount, lastComplete, passStartedAt,
                 epoch, timers, bufferLength, estimate, wifiStatus, wifiLocals,
                 sendLocals, txHist, acqOutcome, estBefore, estimatorCalls,
                 acqStartedAt, acqGap>>

\* Lines 121-128: maxim_heart_rate_and_oxygen_saturation writes the four
\* estimate fields; readSensors returns true (loop() lines 255-264 only print).
RunEstimator ==
  /\ pc = "estimate"
  /\ \E e \in Estimates :
       /\ heartRate' = e.heartRate
       /\ validHeartRate' = e.validHeartRate
       /\ spo2' = e.spo2
       /\ validSPO2' = e.validSPO2
       /\ lastComplete' = [has |-> TRUE, heartRate |-> e.heartRate,
                            validHeartRate |-> e.validHeartRate,
                            spo2 |-> e.spo2, validSPO2 |-> e.validSPO2]
  /\ estimatorCalls' = estimatorCalls + 1
  /\ acqOutcome' = "complete"
  /\ pc' = "txgate"
  /\ i' = 0
  /\ attempts' = 0
  /\ UNCHANGED <<fillHist, passStartedAt,
                 now, epoch, timers, buffers, avail, wifiStatus,
                 wifiLocals, sendLocals, txHist, estBefore, fresh, acqStartedAt,
                 acqGap>>

\* -------------------------------------------------------- transmission gate
\* loop() line 267: the gate is closed; fall through to the delay of line 273.
TransmissionGated ==
  /\ pc = "txgate"
  /\ ~(USub(currentTime, lastDataSend) >= DATA_SEND_INTERVAL)
  /\ pc' = "yield"
  /\ txOutcome' = "gated"
  /\ UNCHANGED <<sendHist, txStampedAt, passStartedAt,
                 now, epoch, timers, buffers, estimate, fillLocals, avail,
                 wifiStatus, wifiLocals, sendLocals, acqHist, trace,
                 connectCalls, txEnteredAt, txGap>>

\* loop() lines 267-269: the gate is open; lastDataSend = currentTime and
\* sendDataToBackend() is entered.
TransmissionStart ==
  /\ pc = "txgate"
  /\ USub(currentTime, lastDataSend) >= DATA_SEND_INTERVAL
  /\ lastDataSend' = currentTime
  /\ pc' = "linkcheck"
  /\ txOutcome' = "sending"
  /\ txGap' = IF txEnteredAt < 0 THEN -1 ELSE now - txEnteredAt
  /\ txEnteredAt' = now
  /\ txStampedAt' = passStartedAt
  /\ UNCHANGED <<sendHist, passStartedAt,
                 now, epoch, lastSensorRead, currentTime, buffers, estimate,
                 fillLocals, avail, wifiStatus, wifiLocals, sendLocals, acqHist,
                 trace, connectCalls>>

\* ------------------------------------------------------ sendDataToBackend
\* Lines 132-136: WiFi.status() != WL_CONNECTED: call connectWiFi(), which
\* starts its for loop at candidate 0; sendDataToBackend returns after it.
LinkDown ==
  /\ pc = "linkcheck"
  /\ wifiStatus' = WL_DISCONNECTED
  /\ wifiIdx' = 0
  /\ pc' = "wifi_begin"
  /\ txOutcome' = "linkdown"
  /\ connectCalls' = connectCalls + 1
  /\ linkChecks' = linkChecks + 1
  /\ UNCHANGED <<recordBuilds, txStampedAt, passStartedAt,
                 now, epoch, timers, buffers, estimate, fillLocals, avail,
                 startAttempt, sendLocals, acqHist, trace, txEnteredAt, txGap>>

\* A payload built from the raw estimate fields, without the validity tests.
BuildRecord_Raw ==
  /\ pc = "linkcheck"
  /\ wifiStatus' = WL_CONNECTED
  /\ \E temp \in Temperatures, timeSet \in BOOLEAN :
       jsonPayload' =
         [device_id |-> DEVICE_ID,
          heart_rate |-> heartRate,
          spo2 |-> spo2,
          temp_skin |-> temp,
          timestamp |-> getCurrentTimestamp(timeSet)]
  /\ retryCount' = 0
  /\ httpResponseCode' = -1
  /\ pc' = "post"
  /\ recordBuilds' = recordBuilds + 1
  /\ linkChecks' = linkChecks + 1
  /\ UNCHANGED <<now, epoch, timers, buffers, estimate, fillLocals, avail,
                 wifiLocals, acqHist, txOutcome, trace, connectCalls,
                 txEnteredAt, txGap, txStampedAt, passStartedAt>>

\* Lines 138-160: the link is up: build the JSON payload once, retryCount = 0,
\* httpResponseCode = -1, and reach the while of line 162.
BuildRecord ==
  /\ pc = "linkcheck"
  /\ wifiStatus' = WL_CONNECTED
  /\ \E temp \in Temperatures, timeSet \in BOOLEAN :
       jsonPayload' =
         [device_id |-> DEVICE_ID,
          heart_rate |-> IF validHeartRate # 0 THEN heartRate ELSE 0,
          spo2 |-> IF validSPO2 # 0 THEN spo2 ELSE 0,
          temp_skin |-> temp,
          timestamp |-> getCurrentTimestamp(timeSet)]
  /\ retryCount' = 0
  /\ httpResponseCode' = -1
  /\ pc' = "post"
  /\ recordBuilds' = recordBuilds + 1
  /\ linkChecks' = linkChecks + 1
  /\ UNCHANGED <<now, epoch, timers, buffers, estimate, fillLocals, avail,
                 wifiLocals, acqHist, txOutcome, trace, connectCalls,
                 txEnteredAt, txGap, txStampedAt, passStartedAt>>

\* The loop test with <= for <.
RetryLoopContinues_OffByOne == retryCount <= maxRetries

\* The test of lines 162, 181 and 191.
RetryLoopContinues == retryCount < maxRetries

\* Lines 163-180 and 185-190: http.POST returned `code` after `lat` ms, and
\* the if/else chain took the branch `branch`.  The trace records the attempt
\* with the outcome its result code stands for.
PostTake(code, lat, branch) ==
  /\ httpResponseCode' = code
  /\ now' = now + lat
  /\ trace' = Append(trace, [ev |-> "post", outcome |-> Classify(code),
                             body |-> jsonPayload])
  /\ IF branch = "Delivered"
       THEN /\ pc' = "end"
            /\ txOutcome' = "delivered"
            /\ retryCount' = retryCount
       ELSE IF branch = "Rejected"
         THEN /\ pc' = "end"
              /\ txOutcome' = "rejected"
              /\ retryCount' = retryCount
         ELSE /\ pc' = "backoff"
              /\ txOutcome' = txOutcome
              /\ retryCount' = retryCount + 1
  /\ UNCHANGED <<sendHist, txStampedAt, passStartedAt,
                 epoch, timers, buffers, estimate, fillLocals, avail, wifiStatus,
                 wifiLocals, jsonPayload, acqHist, connectCalls, txEnteredAt,
                 txGap>>

\* A retry loop that treats a redirect like a server error.
PostAttempt_RetriesRedirect ==
  /\ pc = "post"
  /\ RetryLoopContinues
  /\ \E code \in HttpCodes, lat \in PostLatency :
       PostTake(code, lat,
                IF Classify(code) = "Rejected" THEN "TransientFailure"
                ELSE Classify(code))

\* A retry loop whose success branch tests 200 only and lacks the break for 201.
PostAttempt_NoBreakOn201 ==
  /\ pc = "post"
  /\ RetryLoopContinues
  /\ \E code \in HttpCodes, lat \in PostLatency :
       PostTake(code, lat,
                IF code = 201 THEN "TransientFailure" ELSE Classify(code))

\* Lines 162-195: one iteration of the retry loop up to the classification.
PostAttempt ==
  /\ pc = "post"
  /\ RetryLoopContinues
  /\ \E code \in HttpCodes, lat \in PostLatency :
       PostTake(code, lat, Classify(code))

\* A retry that reads the temperature and the estimate again and sends a
\* newly built payload.
Backoff_Rebuilds ==
  /\ pc = "backoff"
  /\ RetryLoopContinues
  /\ now' = now + RETRY_DELAY
  /\ trace' = Append(trace, [ev |-> "backoff", outcome |-> "none",
                             body |-> NoPayload])
  /\ \E temp \in Temperatures :
       jsonPayload' = [jsonPayload EXCEPT !.temp_skin = temp]
  /\ recordBuilds' = recordBuilds + 1
  /\ pc' = "post"
  /\ UNCHANGED <<linkChecks, txStampedAt, passStartedAt,
                 epoch, timers, buffers, estimate, fillLocals, avail, wifiStatus,
                 wifiLocals, retryCount, httpResponseCode, acqHist, txOutcome,
                 connectCalls, txEnteredAt, txGap>>

\* A retry that tests the link again and calls connectWiFi() before the next
\* attempt.
Backoff_Reconnects ==
  /\ pc = "backoff"
  /\ RetryLoopContinues
  /\ now' = now + RETRY_DELAY
  /\ trace' = Append(trace, [ev |-> "backoff", outcome |-> "none",
                             body |-> NoPayload])
  /\ linkChecks' = linkChecks + 1
  /\ connectCalls' = connectCalls + 1
  /\ pc' = "post"
  /\ UNCHANGED <<recordBuilds, txStampedAt, passStartedAt,
                 epoch, timers, buffers, estimate, fillLocals, avail, wifiStatus,
                 wifiLocals, sendLocals, acqHist, txOutcome,
                 txEnteredAt, txGap>>

\* Lines 181-183 and 191-193: attempts remain: delay(2000), back to line 162.
Backoff ==
  /\ pc = "backoff"
  /\ RetryLoopContinues
  /\ now' = now + RETRY_DELAY
  /\ trace' = Append(trace, [ev |-> "backoff", outcome |-> "none",
                             body |-> NoPayload])
  /\ pc' = "post"
  /\ UNCHANGED <<sendHist, txStampedAt, passStartedAt,
                 epoch, timers, buffers, estimate, fillLocals, avail, wifiStatus,
                 wifiLocals, sendLocals, acqHist, txOutcome, connectCalls,
                 txEnteredAt, txGap>>

\* An unconditional delay(2000) after a failed attempt, the last one included.
RetriesExhausted_Delays ==
  /\ pc = "backoff"
  /\ ~RetryLoopContinues
  /\ now' = now + RETRY_DELAY
  /\ trace' = Append(trace, [ev |-> "backoff", outcome |-> "none",
                             body |-> NoPayload])
  /\ pc' = "end"
  /\ txOutcome' = "dropped"
  /\ UNCHANGED <<sendHist, txStampedAt, passStartedAt,
                 epoch, timers, buffers, estimate, fillLocals, avail,
                 wifiStatus, wifiLocals, sendLocals, acqHist,
                 connectCalls, txEnteredAt, txGap>>

\* Lines 181/191 and 162: no attempt remains: no delay, the while loop ends.
RetriesExhausted ==
  /\ pc = "backoff"
  /\ ~RetryLoopContinues
  /\ pc' = "end"
  /\ txOutcome' = "dropped"
  /\ UNCHANGED <<sendHist, txStampedAt, passStartedAt,
                 now, epoch, timers, buffers, estimate, fillLocals, avail,
                 wifiStatus, wifiLocals, sendLocals, acqHist, trace,
                 connectCalls, txEnteredAt, txGap>>

\* A delivery that marks the estimate as consumed when it ends.
HttpEnd_ConsumesEstimate ==
  /\ pc = "end"
  /\ pc' = "yield"
  /\ jsonPayload' = NoPayload
  /\ retryCount' = 0
  /\ httpResponseCode' = -1
  /\ validHeartRate' = 0
  /\ validSPO2' = 0
  /\ UNCHANGED <<now, epoch, timers, buffers, spo2, heartRate, fillLocals, avail,
                 wifiStatus, wifiLocals, hist>>

\* Lines 197-198: http.end(); the locals of sendDataToBackend go out of scope.
HttpEnd ==
  /\ pc = "end"
  /\ pc' = "yield"
  /\ jsonPayload' = NoPayload
  /\ retryCount' = 0
  /\ httpResponseCode' = -1
  /\ UNCHANGED <<now, epoch, timers, buffers, estimate, fillLocals, avail,
                 wifiStatus, wifiLocals, hist>>

\* ------------------------------------------------------------- connectWiFi
\* Lines 48-53: i < wifiCount: WiFi.begin(candidate), startAttempt = millis().
WifiBegin ==
  /\ pc = "wifi_begin"
  /\ wifiIdx < wifiCount
  /\ startAttempt' = millis
  /\ pc' = "wifi_wait"
  /\ UNCHANGED <<now, epoch, timers, buffers, estimate, fillLocals, avail,
                 wifiStatus, wifiIdx, sendLocals, hist>>

\* Lines 55-58: not connected and the candidate's 10 s are not over: delay(500).
WifiWait ==
  /\ pc = "wifi_wait"
  /\ wifiStatus' = WL_DISCONNECTED
  /\ USub(millis, startAttempt) < WIFI_ATTEMPT_TIMEOUT
  /\ now' = now + WIFI_POLL_DELAY
  /\ UNCHANGED <<pc, epoch, timers, buffers, estimate, fillLocals, avail,
                 wifiLocals, sendLocals, hist>>

\* Line 55: the while condition fails, because the status read is connected
\* or because the candidate's 10 s are over.
WifiWaitOver ==
  /\ pc = "wifi_wait"
  /\ \E status \in {WL_CONNECTED, WL_DISCONNECTED} :
       /\ wifiStatus' = status
       /\ ~(status # WL_CONNECTED /\ USub(millis, startAttempt) < WIFI_ATTEMPT_TIMEOUT)
  /\ pc' = "wifi_joined"
  /\ UNCHANGED <<now, epoch, timers, buffers, estimate, fillLocals, avail,
                 wifiLocals, sendLocals, hist>>

\* sendDataToBackend without the return of line 135: after a successful
\* reconnection it goes on to build and send the record.
WifiJoined_FallsThrough ==
  /\ pc = "wifi_joined"
  /\ wifiStatus' = WL_CONNECTED
  /\ pc' = "linkcheck"
  /\ wifiIdx' = 0
  /\ startAttempt' = 0
  /\ UNCHANGED <<now, epoch, timers, buffers, estimate, fillLocals, avail,
                 sendLocals, hist>>

\* Lines 60-70: connected: configTime, return from connectWiFi and, at line
\* 135, from sendDataToBackend.
WifiJoined ==
  /\ pc = "wifi_joined"
  /\ wifiStatus' = WL_CONNECTED
  /\ pc' = "yield"
  /\ wifiIdx' = 0
  /\ startAttempt' = 0
  /\ UNCHANGED <<now, epoch, timers, buffers, estimate, fillLocals, avail,
                 sendLocals, hist>>

\* Lines 60 and 72-73: not connected: next candidate.
WifiNext ==
  /\ pc = "wifi_joined"
  /\ wifiStatus' = WL_DISCONNECTED
  /\ wifiIdx' = wifiIdx + 1
  /\ pc' = "wifi_begin"
  /\ UNCHANGED <<now, epoch, timers, buffers, estimate, fillLocals, avail,
                 startAttempt, sendLocals, hist>>

\* Lines 48 and 75-76: every candidate failed: return from connectWiFi and,
\* at line 135, from sendDataToBackend.
WifiExhausted ==
  /\ pc = "wifi_begin"
  /\ ~(wifiIdx < wifiCount)
  /\ pc' = "yield"
  /\ wifiIdx' = 0
  /\ startAttempt' = 0
  /\ UNCHANGED <<now, epoch, timers, buffers, estimate, fillLocals, avail,
                 wifiStatus, sendLocals, hist>>

\* ------------------------------------------------------------------- yield
\* loop() line 273: delay(100); the runtime calls loop() again.  The record
\* of what the pass did ends with the pass.
Yield ==
  /\ pc = "yield"
  /\ now' = now + LOOP_DELAY
  /\ pc' = "loop"
  /\ acqOutcome' = "none"
  /\ txOutcome' = "none"
  /\ estBefore' = Estimate
  /\ estimatorCalls' = 0
  /\ fresh' = [k \in Slots |-> FALSE]
  /\ trace' = <<>>
  /\ connectCalls' = 0
  /\ acqGap' = -1
  /\ txGap' = -1
  /\ pollCount' = 0
  /\ samplesRead' = 0
  /\ slotOrd' = [k \in Slots |-> 0]
  /\ recordBuilds' = 0
  /\ linkChecks' = 0
  /\ UNCHANGED <<lastComplete, passStartedAt, txStampedAt,
                 epoch, timers, buffers, estimate, fillLocals, avail, wifiStatus,
                 wifiLocals, sendLocals, acqStartedAt, txEnteredAt>>

Next ==
  \/ LoopBegin
  \/ ReadSensorsGated
  \/ ReadSensorsStart
  \/ PollSensor
  \/ FillTimeout
  \/ ReadSample
  \/ RunEstimator
  \/ TransmissionGated
  \/ TransmissionStart
  \/ LinkDown
  \/ BuildRecord
  \/ PostAttempt
  \/ Backoff
  \/ RetriesExhausted
  \/ HttpEnd
  \/ WifiBegin
  \/ WifiWait
  \/ WifiWaitOver
  \/ WifiJoined
  \/ WifiNext
  \/ WifiExhausted
  \/ Yield

Spec == Init /\ [][Next]_vars

\* The program is one sequential thread: the statement it is at is executed.
FairSpec == Spec /\ WF_vars(Next)

\* ============================================================== properties
ZeroEstimate == [heartRate |-> 0, validHeartRate |-> 0, spo2 |-> 0, validSPO2 |-> 0]
FilledSlots == Cardinality({k \in Slots : fresh[k]})
IsPost(e) == e.ev = "post"
Posts == Len(SelectSeq(trace, IsPost))
IsBackoff(e) == e.ev = "backoff"
Backoffs == Len(SelectSeq(trace, IsBackoff))
IsTransientPost(e) == e.ev = "post" /\ e.outcome = "TransientFailure"
TransientPosts == Len(SelectSeq(trace, IsTransientPost))
TxRan == txOutcome \in {"linkdown", "delivered", "rejected", "dropped"}

\* C1: in an acquisition cycle that passed its gate, the estimator writes the
\* estimate if and only if all BUFFER_SIZE slots were filled in that cycle;
\* while the fill runs and after a timeout at any slot the four estimate
\* fields are what they were before the cycle, and the cycle returns false.
C1_EstimateWrittenIffBufferFull ==
  /\ acqOutcome = "running" => estimatorCalls = 0 /\ Estimate = estBefore
  /\ acqOutcome = "timeout" =>
       /\ estimatorCalls = 0
       /\ FilledSlots < BUFFER_SIZE
       /\ Estimate = estBefore
  /\ acqOutcome = "complete" => estimatorCalls = 1 /\ FilledSlots = BUFFER_SIZE
  /\ acqOutcome \in {"timeout", "complete"} =>
       (estimatorCalls = 1 <=> FilledSlots = BUFFER_SIZE)

\* A cycle that filled slot 0, timed out at a later slot and kept the estimate
\* of an earlier complete cycle.
C1_Witness ==
  /\ acqOutcome = "timeout"
  /\ fresh[0]
  /\ Estimate # ZeroEstimate
  /\ Estimate = estBefore

\* C2: in every record built by sendDataToBackend, heart_rate is 0 when
\* validHeartRate is false and the estimator's value when it is true, and
\* spo2 is 0 when validSPO2 is false and the estimator's value when it is true.
C2_InvalidFieldsReportedAsZero ==
  pc \in {"post", "backoff", "end"} =>
    /\ validHeartRate = 0 => jsonPayload.heart_rate = 0
    /\ validHeartRate # 0 => jsonPayload.heart_rate = heartRate
    /\ validSPO2 = 0 => jsonPayload.spo2 = 0
    /\ validSPO2 # 0 => jsonPayload.spo2 = spo2

\* A record built while the estimator's heart rate is invalid but nonzero and
\* its SpO2 valid.
C2_Witness ==
  /\ pc = "post"
  /\ validHeartRate = 0 /\ heartRate = 55 /\ jsonPayload.heart_rate = 0
  /\ validSPO2 = 1 /\ jsonPayload.spo2 = 98

\* C3: whatever each attempt returns, a record is POSTed at most 3 times.
C3_AtMostThreeAttempts == Posts <= 3

\* A delivery that has made its third attempt.
C3_Witness == Posts = 3

\* C4 as stated: a delivery that ends Rejected has made exactly one attempt.
C4_RejectedMeansOneAttempt == txOutcome = "rejected" => Posts = 1

\* C4 amended: a Rejected attempt is the last attempt of its record, every
\* attempt before it was a TransientFailure, and the record has then been
\* attempted once more than it has failed transiently (at most 3 times, and
\* exactly once when the first attempt is the Rejected one).
C4_RejectedIsLastAttempt ==
  /\ \A k \in 1 .. Len(trace) :
       (IsPost(trace[k]) /\ trace[k].outcome = "Rejected") =>
         /\ k = Len(trace)
         /\ txOutcome = "rejected"
         /\ \A j \in 1 .. (k - 1) :
              IsPost(trace[j]) => trace[j].outcome = "TransientFailure"
  /\ txOutcome = "rejected" =>
       /\ Len(trace) > 0
       /\ trace[Len(trace)].outcome = "Rejected"
       /\ Posts = TransientPosts + 1
       /\ pc = "end" => retryCount = TransientPosts
       /\ Posts <= 3
       /\ (trace[1].outcome = "Rejected" => Posts = 1)

\* A delivery rejected on its second attempt, after one transient failure.
C4_Witness ==
  /\ txOutcome = "rejected"
  /\ pc = "end"
  /\ Posts = 2

\* C5: within one delivery, only a TransientFailure is followed by anything:
\* every attempt that is not the last event of the delivery was a
\* TransientFailure, and every backoff delay directly follows a
\* TransientFailure attempt.
C5_OnlyTransientFailureIsFollowedUp ==
  \A k \in 1 .. Len(trace) :
    /\ (IsPost(trace[k]) /\ k < Len(trace)) =>
         trace[k].outcome = "TransientFailure"
    /\ IsBackoff(trace[k]) =>
         /\ k > 1
         /\ IsPost(trace[k - 1])
         /\ trace[k - 1].outcome = "TransientFailure"

\* A delivery that succeeded on the attempt after a backoff.
C5_Witness ==
  /\ pc = "end"
  /\ Len(trace) = 3
  /\ trace[1].outcome = "TransientFailure"
  /\ IsBackoff(trace[2])
  /\ trace[3].outcome = "Delivered"

\* C6: a delivery whose attempts were all TransientFailures ends after exactly
\* 3 attempts with one backoff between consecutive attempts and none after
\* the last, and the record is dropped.
C6_ThreeAttemptsTwoBackoffs ==
  (pc = "end" /\ \A k \in 1 .. Len(trace) :
                   IsPost(trace[k]) => trace[k].outcome = "TransientFailure") =>
    /\ txOutcome = "dropped"
    /\ Len(trace) = 5
    /\ IsPost(trace[1]) /\ IsBackoff(trace[2]) /\ IsPost(trace[3])
    /\ IsBackoff(trace[4]) /\ IsPost(trace[5])
    /\ Posts = 3 /\ Backoffs = 2
    /\ now - txEnteredAt >= 2 * RETRY_DELAY
    /\ now - txEnteredAt < 3 * RETRY_DELAY

\* A record dropped after its retries.
C6_Witness ==
  /\ pc = "end"
  /\ txOutcome = "dropped"
  /\ Posts = 3

\* C7: on a transmission tick that finds the link down, connectWiFi is invoked
\* exactly once and no POST is made on that tick, also when the reconnection
\* succeeds.
C7_LinkDownReconnectsOnceSendsNothing ==
  /\ txOutcome = "linkdown" => connectCalls = 1 /\ Posts = 0
  /\ connectCalls > 0 => connectCalls = 1 /\ Posts = 0 /\ txOutcome = "linkdown"

\* A link-down tick that ends with the link re-established.
C7_Witness ==
  /\ pc = "yield"
  /\ txOutcome = "linkdown"
  /\ wifiStatus = WL_CONNECTED
  /\ connectCalls = 1

\* C8: two consecutive acquisition cycles start at least SENSOR_READ_INTERVAL
\* ms of real time apart, also when the earlier one timed out.
C8_AcquisitionStartsAtLeastIntervalApart ==
  acqGap # -1 => acqGap >= 2000

\* A second cycle starts after a first one that timed out (no estimate yet).
C8_Witness ==
  /\ acqGap # -1
  /\ acqOutcome = "running"
  /\ Estimate = ZeroEstimate

\* C9 as stated: two consecutive entries into sendDataToBackend are at least
\* DATA_SEND_INTERVAL ms of real time apart.
C9_TransmissionEntriesAtLeastIntervalApart ==
  txGap # -1 => txGap >= 1000

\* C10: a pass on which the transmission gate is open runs the transmission
\* tick whether its acquisition tick was gated off, completed or timed out:
\* a pass reaches its yield either with the tick run or with the gate closed.
C10_OpenGateAlwaysTransmits ==
  pc = "yield" =>
    \/ TxRan
    \/ /\ txOutcome = "gated"
       /\ USub(currentTime, lastDataSend) < DATA_SEND_INTERVAL

\* A pass whose acquisition timed out and whose record was delivered.
C10_Witness ==
  /\ pc = "yield"
  /\ acqOutcome = "timeout"
  /\ txOutcome = "delivered"

AcquisitionPositions == {"readSensors", "fill", "estimate"}
TransmissionPositions ==
  {"txgate", "linkcheck", "wifi_begin", "wifi_wait", "wifi_joined", "post",
   "backoff", "end"}

\* C11: on every pass the acquisition tick has reached its terminal outcome
\* (gated off, TimedOut, or Complete with the estimator run) whenever control
\* is in the transmission tick, and while the acquisition tick is running the
\* pass has evaluated no transmission gate, checked no link and made no send
\* attempt.
C11_AcquisitionEndsBeforeTransmission ==
  /\ pc \in TransmissionPositions =>
       /\ acqOutcome \in {"gated", "timeout", "complete"}
       /\ acqOutcome = "complete" => estimatorCalls = 1
  /\ pc \in AcquisitionPositions =>
       /\ txOutcome = "none"
       /\ trace = <<>>
       /\ linkChecks = 0
       /\ recordBuilds = 0
  /\ Posts > 0 => acqOutcome \in {"gated", "timeout", "complete"}

\* A send attempt about to be made on a pass whose fill completed.
C11_Witness ==
  /\ pc = "post"
  /\ acqOutcome = "complete"
  /\ FilledSlots = BUFFER_SIZE

\* C12: whatever the sensor and the network do, a pass that is inside its
\* acquisition tick or its transmission tick reaches its yield, and at the
\* yield the fill, if one started, has ended Complete or TimedOut and the
\* delivery, if one started, has ended Delivered, Rejected, dropped or
\* LinkDown.
C12_EveryPassReachesItsYield ==
  /\ (pc \in AcquisitionPositions \cup TransmissionPositions) ~> (pc = "yield")
  /\ [](pc = "yield" =>
          /\ acqOutcome \in {"gated", "timeout", "complete"}
          /\ txOutcome \in {"gated", "linkdown", "delivered", "rejected",
                            "dropped"})

\* A pass at its yield after a fill that timed out and a record that was
\* dropped after its retries.
C12_Witness ==
  /\ pc = "yield"
  /\ acqOutcome = "timeout"
  /\ txOutcome = "dropped"

\* The reading of millis() at real time t.
ClockAt(t) == (epoch + t) % ClockMod

\* C13: a cycle whose gate was open has set lastSensorRead to the clock
\* reading of its start before its first poll, and lastSensorRead keeps that
\* value while the fill runs, after it timed out and after it completed, up
\* to the start of the next cycle; the cycle after a timed-out one starts no
\* sooner than SENSOR_READ_INTERVAL ms later.
C13_StampSetBeforeFillAndKept ==
  /\ (pc = "fill" /\ pollCount = 0 /\ samplesRead = 0) =>
       lastSensorRead = millis
  /\ acqOutcome \in {"running", "timeout", "complete"} =>
       lastSensorRead = ClockAt(acqStartedAt)
  /\ acqStartedAt >= 0 => lastSensorRead = ClockAt(acqStartedAt)
  /\ (pc = "readSensors" /\ acqStartedAt >= 0
        /\ now - acqStartedAt < SENSOR_READ_INTERVAL) =>
       USub(millis, lastSensorRead) < SENSOR_READ_INTERVAL
  /\ acqGap # -1 => acqGap >= SENSOR_READ_INTERVAL

\* A pass at its yield whose fill read one sample and then timed out, later
\* than its stamp.
C13_Witness ==
  /\ pc = "yield"
  /\ acqOutcome = "timeout"
  /\ samplesRead = 1
  /\ now > acqStartedAt
  /\ lastSensorRead = ClockAt(acqStartedAt)

\* Every slot holds a sample read in the current cycle, slot k the (k+1)-th.
AllSlotsFromThisCycle ==
  /\ bufferLength = BUFFER_SIZE
  /\ samplesRead = BUFFER_SIZE
  /\ \A k \in Slots : fresh[k] /\ slotOrd[k] = k + 1

\* C14: when the estimator is invoked, and after it has run, the buffer holds
\* exactly BUFFER_SIZE samples that were all read in the current cycle, the
\* k-th sample read in slot k-1; while the fill runs, the slots below the
\* fill index are the ones read in this cycle, in order, and no other slot
\* counts as read, whatever earlier cycles left in the buffer.
C14_EstimatorInputIsThisCyclesSamples ==
  /\ pc = "estimate" => AllSlotsFromThisCycle
  /\ estimatorCalls > 0 => AllSlotsFromThisCycle
  /\ pc = "fill" =>
       /\ i < bufferLength
       /\ samplesRead = i
       /\ \A k \in Slots :
            /\ fresh[k] <=> k < i
            /\ slotOrd[k] = IF k < i THEN k + 1 ELSE 0

\* The estimator is about to run in the cycle that follows a timed-out one
\* (an earlier cycle started, none has completed).
C14_Witness ==
  /\ pc = "estimate"
  /\ acqGap # -1
  /\ ~lastComplete.has
  /\ AllSlotsFromThisCycle

\* C15: a transmission tick that found the link up has built its record
\* exactly once, before its first send attempt, and every attempt of the tick
\* has sent that same payload; a tick that found the link down has built none.
C15_RecordBuiltOnceAndResentUnchanged ==
  /\ recordBuilds <= 1
  /\ pc \in {"post", "backoff", "end"} =>
       /\ recordBuilds = 1
       /\ jsonPayload # NoPayload
       /\ \A k \in 1 .. Len(trace) :
            IsPost(trace[k]) => trace[k].body = jsonPayload
  /\ Posts > 0 => recordBuilds = 1
  /\ \A j, k \in 1 .. Len(trace) :
       (IsPost(trace[j]) /\ IsPost(trace[k])) => trace[j].body = trace[k].body
  /\ txOutcome = "linkdown" => recordBuilds = 0

\* A record delivered at the third attempt.
C15_Witness ==
  /\ pc = "end"
  /\ txOutcome = "delivered"
  /\ Posts = 3
  /\ recordBuilds = 1
  /\ trace[5].body = trace[1].body

\* What a record reports for a value with its validity flag (lines 146-147).
Normalized(valid, value) == IF valid # 0 THEN value ELSE 0

\* C16: the heart_rate and spo2 of every record sent are the normalized
\* values of what the estimator returned in the last cycle that completed
\* before the record was built, and both are 0 while no cycle has completed.
C16_RecordCarriesLastCompleteEstimate ==
  /\ \A k \in 1 .. Len(trace) :
       IsPost(trace[k]) =>
         IF lastComplete.has
           THEN /\ trace[k].body.heart_rate =
                     Normalized(lastComplete.validHeartRate, lastComplete.heartRate)
                /\ trace[k].body.spo2 =
                     Normalized(lastComplete.validSPO2, lastComplete.spo2)
           ELSE trace[k].body.heart_rate = 0 /\ trace[k].body.spo2 = 0
  /\ ~lastComplete.has => Estimate = ZeroEstimate
  /\ lastComplete.has =>
       Estimate = [heartRate |-> lastComplete.heartRate,
                   validHeartRate |-> lastComplete.validHeartRate,
                   spo2 |-> lastComplete.spo2,
                   validSPO2 |-> lastComplete.validSPO2]

\* A record sent on a pass whose fill timed out carries the SpO2 of the cycle
\* that completed before.
C16_Witness ==
  /\ Posts > 0
  /\ acqOutcome = "timeout"
  /\ lastComplete.has
  /\ trace[1].body.spo2 = 98
  /\ trace[1].body.heart_rate = 0

\* C17: a step of the transmission tick (gate, link check, reconnection,
\* attempts, backoffs, http.end) leaves the estimate, the sample buffer and
\* lastSensorRead unchanged; a step of the acquisition tick leaves
\* lastDataSend unchanged; and the estimate changes only in the step that
\* runs the estimator.
C17_TicksKeepEachOthersState ==
  [][ /\ pc \in TransmissionPositions =>
           /\ estimate' = estimate
           /\ buffers' = buffers
           /\ lastSensorRead' = lastSensorRead
      /\ pc \in AcquisitionPositions => lastDataSend' = lastDataSend
      /\ estimate' # estimate => pc = "estimate" /\ acqOutcome' = "complete"
    ]_vars

\* A pass at its yield whose tick ended Rejected, with the estimate and the
\* stamp of the acquisition side as the last cycles left them.
C17_Witness ==
  /\ pc = "yield"
  /\ txOutcome = "rejected"
  /\ lastComplete.has
  /\ heartRate = lastComplete.heartRate
  /\ validSPO2 = lastComplete.validSPO2
  /\ lastSensorRead = ClockAt(acqStartedAt)

\* C18: a slot is polled at most POLL_BUDGET times and a cycle at most
\* BUFFER_SIZE * POLL_BUDGET times; the fill times out at a slot exactly in
\* the step taken with nothing available after the slot's POLL_BUDGET-th
\* poll, and with a sample available (on or before that poll) the step taken
\* reads it into the slot; one sensor sample is consumed per filled slot.
C18_PollBudgetPerSlot ==
  /\ [](/\ attempts <= POLL_BUDGET
        /\ pollCount <= BUFFER_SIZE * POLL_BUDGET
        /\ pc = "fill" => pollCount <= i * POLL_BUDGET + attempts
        /\ samplesRead = FilledSlots
        /\ acqOutcome = "timeout" =>
             /\ avail = 0
             /\ pollCount >= POLL_BUDGET
             /\ pollCount <= (samplesRead + 1) * POLL_BUDGET)
  /\ [][ pc = "fill" =>
           /\ acqOutcome' = "timeout" <=> (avail = 0 /\ attempts = POLL_BUDGET)
           /\ pollCount' = pollCount + 1 <=> (avail = 0 /\ attempts < POLL_BUDGET)
           /\ avail > 0 =>
                /\ samplesRead' = samplesRead + 1
                /\ fresh'[i]
                /\ avail' = avail - 1
                /\ acqOutcome' = "running"
       ]_vars

\* Slot 0 was read after its last allowed poll and slot 1 timed out after
\* its own POLL_BUDGET polls.
C18_Witness ==
  /\ acqOutcome = "timeout"
  /\ samplesRead = 1
  /\ fresh[0]
  /\ pollCount = 2 * POLL_BUDGET

\* Real time at which the value held by lastSensorRead was read from the
\* clock (setup leaves both stamps at the clock's value at real time 0).
SensorStampedAt == IF acqStartedAt < 0 THEN 0 ELSE acqStartedAt

\* C19: each gate's unsigned difference is the real time elapsed between the
\* two clock readings it compares, also when the clock has wrapped between
\* them, so the gate is open exactly when the interval has really elapsed:
\* the acquisition gate compares a fresh reading with lastSensorRead, the
\* transmission gate the reading of the pass start with lastDataSend.
C19_GatesMeasureRealElapsedTime ==
  /\ pc = "readSensors" =>
       /\ USub(millis, lastSensorRead) = now - SensorStampedAt
       /\ USub(millis, lastSensorRead) >= SENSOR_READ_INTERVAL
            <=> now - SensorStampedAt >= SENSOR_READ_INTERVAL
  /\ pc = "txgate" =>
       /\ USub(currentTime, lastDataSend) = passStartedAt - txStampedAt
       /\ USub(currentTime, lastDataSend) >= DATA_SEND_INTERVAL
            <=> passStartedAt - txStampedAt >= DATA_SEND_INTERVAL
  /\ acqGap # -1 => acqGap >= SENSOR_READ_INTERVAL
  /\ txOutcome = "sending" /\ pc = "linkcheck" =>
       lastDataSend = ClockAt(txStampedAt)

\* A cycle started after the clock wrapped, SENSOR_READ_INTERVAL ms or more
\* after the previous cycle, which started before the wrap.
C19_Witness ==
  /\ acqOutcome = "running"
  /\ acqGap >= SENSOR_READ_INTERVAL
  /\ ClockAt(acqStartedAt) < ClockAt(acqStartedAt - acqGap)

\* C20: a transmission tick tests the link exactly once, before it builds the
\* record and before its first attempt; inside the retry loop the link is
\* not tested and connectWiFi is not called; a send that fails without an
\* HTTP status (result code <= 0, as when the link has dropped) is a
\* TransientFailure that has been counted in retryCount, and ends the
\* delivery only as the maxRetries-th failure, with the record dropped.
C20_LinkCheckedOncePerTick ==
  /\ linkChecks <= 1
  /\ pc \in {"linkcheck", "txgate"} \cup AcquisitionPositions =>
       linkChecks = 0 /\ recordBuilds = 0 /\ Posts = 0
  /\ pc \in {"post", "backoff", "end"} =>
       /\ linkChecks = 1
       /\ connectCalls = 0
       /\ retryCount = TransientPosts
       /\ retryCount <= maxRetries
  /\ Posts > 0 => linkChecks = 1 /\ connectCalls = 0
  /\ (pc \in {"backoff", "end"} /\ httpResponseCode <= 0) =>
       /\ trace # <<>>
       /\ IsTransientPost(IF IsPost(trace[Len(trace)])
                            THEN trace[Len(trace)]
                            ELSE trace[Len(trace) - 1])
       /\ retryCount >= 1
  /\ (pc = "end" /\ httpResponseCode <= 0) =>
       /\ txOutcome = "dropped"
       /\ retryCount = maxRetries
       /\ Posts = maxRetries

\* A record dropped after a last send that failed without an HTTP status, on
\* a tick that had found the link up.
C20_Witness ==
  /\ pc = "end"
  /\ txOutcome = "dropped"
  /\ httpResponseCode = -1
  /\ linkChecks = 1
  /\ connectCalls = 0
  /\ wifiStatus = WL_CONNECTED

====
